---- MODULE Spec2Model ----
(***************************************************************************)
(* TPFanWin: the KCS-style embedded-controller (EC) handshake of           *)
(* ec_control.py and the fan-control service loop of fan_control_logic.py. *)
(*                                                                         *)
(* Every port operation of the code (one Inp32 or Out32 call) is one step  *)
(* of the thread that makes it.  The EC answers in steps of its own, so a  *)
(* poll can be satisfied in time or run into its deadline.                 *)
(***************************************************************************)
EXTENDS Integers, Sequences, FiniteSets, TLC

(***************************************************************************)
(* Constants of ec_control.py                                              *)
(***************************************************************************)
EC_DATA_PORT == 98
EC_CTRL_PORT == 102
EC_STATUS_PORT == 102
EC_STATUS_OBF == 1
EC_STATUS_IBF == 2
EC_CTRL_READ_CMD == 128
EC_CMD_WRITE == 129
TP_EC_FAN_STATUS == 47
TP_EC_FAN_RPM_LSB == 132
TP_EC_FAN_RPM_MSB == 133
TP_EC_TEMP_BASE == 120
FAN_LEVEL_AUTO == 128
FAN_LEVEL_FULL == 64
\* The poll deadline of 0.2 s, in clock ticks of 100 ms.
KCS_WAIT_TIMEOUT == 2

(***************************************************************************)
(* Bounds of the model                                                     *)
(***************************************************************************)
\* API calls one caller makes in a run of the API specifications.
MaxCalls == 2
\* API calls each of two concurrent callers makes.
MaxConcCalls == 1
\* Points of a fan curve in the configuration file.
MaxCurveLen == 2
\* API calls the caller makes against an EC that may never answer.
MaxTxCalls == 2

Threads == {"main", "other"}

\* Register offsets the mock EC holds a byte for: the documented registers
\* and the last offset of the register space.  Any other offset reads as 0.
RegOffsets == {TP_EC_FAN_STATUS, TP_EC_FAN_RPM_LSB, TP_EC_FAN_RPM_MSB, 255}
                 \cup (TP_EC_TEMP_BASE .. TP_EC_TEMP_BASE + 7)

VARIABLES
    reg,        \* EC register file: offset -> byte
    ibf,        \* EC status flag: input buffer full
    obf,        \* EC status flag: output buffer full
    ecIn,       \* the byte the host last put in the input buffer: <<port, byte>>
    ecMode,     \* EC command state: "idle", "rd_off", "wr_off", "wr_val"
    ecOff,      \* offset latched by the EC for a write command
    ecOut,      \* byte in the EC output buffer
    th,         \* per thread: the call frame (API function, transaction, locals)
    gh,         \* per thread: history of the call's port operations
    ncalls,     \* per thread: API calls made by the API driver
    clean,      \* no transaction of the run has failed so far
    svc,        \* the service: TPFanWinService's fields and its threads' positions
    conf        \* the loaded configuration: sensor_index and fan_curve

ecvars == <<reg, ibf, obf, ecIn, ecMode, ecOff, ecOut>>
drv == <<ncalls, svc, conf>>
hostvars == <<th, gh, ncalls, clean, svc, conf>>
vars == <<reg, ibf, obf, ecIn, ecMode, ecOff, ecOut, th, gh, ncalls, clean, svc, conf>>

(***************************************************************************)
(* Bit tests on a status byte, as the code's `status & FLAG`               *)
(***************************************************************************)
BitSet(x, flag) == (x \div flag) % 2 = 1

(***************************************************************************)
(* The mock EC: the hardware side of the KCS handshake.  A byte the host   *)
(* writes sets IBF until the EC consumes it; a read command followed by an *)
(* offset makes the EC place that register's byte and set OBF; reading the *)
(* data port clears OBF.                                                   *)
(***************************************************************************)
StatusByte == (IF obf THEN EC_STATUS_OBF ELSE 0) + (IF ibf THEN EC_STATUS_IBF ELSE 0)

RegRead(o) == IF o \in DOMAIN reg THEN reg[o] ELSE 0

RegWrite(o, b) == IF o \in DOMAIN reg THEN [reg EXCEPT ![o] = b] ELSE reg

\* The EC consumes the byte in its input buffer and clears IBF.
EcConsume ==
    /\ ibf
    /\ ibf' = FALSE
    /\ ecIn' = <<>>
    /\ LET port == ecIn[1]
           b == ecIn[2]
       IN  IF port = EC_CTRL_PORT
           THEN /\ ecMode' = (IF b = EC_CTRL_READ_CMD THEN "rd_off"
                              ELSE IF b = EC_CMD_WRITE THEN "wr_off" ELSE "idle")
                /\ UNCHANGED <<reg, obf, ecOff, ecOut>>
           ELSE CASE ecMode = "rd_off" ->
                       /\ ecOut' = RegRead(b)
                       /\ obf' = TRUE
                       /\ ecMode' = "idle"
                       /\ UNCHANGED <<reg, ecOff>>
                  [] ecMode = "wr_off" ->
                       /\ ecOff' = b
                       /\ ecMode' = "wr_val"
                       /\ UNCHANGED <<reg, obf, ecOut>>
                  [] ecMode = "wr_val" ->
                       /\ reg' = RegWrite(ecOff, b)
                       /\ ecMode' = "idle"
                       /\ ecOff' = 0
                       /\ UNCHANGED <<obf, ecOut>>
                  [] OTHER ->
                       UNCHANGED <<reg, obf, ecMode, ecOff, ecOut>>
    /\ UNCHANGED hostvars

(***************************************************************************)
(* Port Access Layer: _read_port and _write_port mask to 8 bits            *)
(***************************************************************************)
\* The value _read_port(port) returns in the current state.
read_port(port) ==
    (IF port = EC_DATA_PORT THEN ecOut ELSE StatusByte) % 256

\* The byte _write_port(port, value) hands to Out32.
write_port(value) == value % 256

\* Effect of a port read on the EC: reading the data port clears OBF.
EcAfterIn(port) ==
    /\ obf' = (IF port = EC_DATA_PORT THEN FALSE ELSE obf)
    /\ UNCHANGED <<reg, ibf, ecIn, ecMode, ecOff, ecOut>>

\* Effect of a port write on the EC: the byte fills the input buffer.
EcAfterOut(port, value) ==
    /\ ecIn' = <<port, write_port(value)>>
    /\ ibf' = TRUE
    /\ UNCHANGED <<reg, obf, ecMode, ecOff, ecOut>>

(***************************************************************************)
(* EC Protocol Engine.  A transaction is the sequence of port operations   *)
(* and polls that _read_ec_byte or _write_ec_byte makes, in program order. *)
(***************************************************************************)
In(port) == [op |-> "in", port |-> port, val |-> 0, tag |-> ""]

Out(port, value) == [op |-> "out", port |-> port, val |-> value, tag |-> ""]

WaitIbf(tag) == [op |-> "wait_ibf", port |-> EC_STATUS_PORT, val |-> 0, tag |-> tag]

WaitObf(tag) == [op |-> "wait_obf", port |-> EC_STATUS_PORT, val |-> 0, tag |-> tag]

\* _read_ec_byte without the poll between the command and the offset.
read_ec_byte_unguarded(offset) ==
    << In(EC_CTRL_PORT),
       WaitIbf("Failed waiting for IBF clear before read command."),
       Out(EC_CTRL_PORT, EC_CTRL_READ_CMD),
       Out(EC_DATA_PORT, offset),
       WaitObf("Failed waiting for OBF set after sending offset."),
       In(EC_DATA_PORT),
       In(EC_STATUS_PORT) >>

\* _read_ec_byte raising the first poll's message at the second poll too.
read_ec_byte_same_tag(offset) ==
    << In(EC_CTRL_PORT),
       WaitIbf("Failed waiting for IBF clear before read command."),
       Out(EC_CTRL_PORT, EC_CTRL_READ_CMD),
       WaitIbf("Failed waiting for IBF clear before read command."),
       Out(EC_DATA_PORT, offset),
       WaitObf("Failed waiting for OBF set after sending offset."),
       In(EC_DATA_PORT),
       In(EC_STATUS_PORT) >>

\* _read_ec_byte returning right after the data-port read.
read_ec_byte_nofinal(offset) ==
    << In(EC_CTRL_PORT),
       WaitIbf("Failed waiting for IBF clear before read command."),
       Out(EC_CTRL_PORT, EC_CTRL_READ_CMD),
       WaitIbf("Failed waiting for IBF clear before sending offset."),
       Out(EC_DATA_PORT, offset),
       WaitObf("Failed waiting for OBF set after sending offset."),
       In(EC_DATA_PORT) >>

read_ec_byte(offset) ==
    << In(EC_CTRL_PORT),
       WaitIbf("Failed waiting for IBF clear before read command."),
       Out(EC_CTRL_PORT, EC_CTRL_READ_CMD),
       WaitIbf("Failed waiting for IBF clear before sending offset."),
       Out(EC_DATA_PORT, offset),
       WaitObf("Failed waiting for OBF set after sending offset."),
       In(EC_DATA_PORT),
       In(EC_STATUS_PORT) >>

\* _write_ec_byte sending the value byte before the offset.
write_ec_byte_swapped(offset, value) ==
    << In(EC_STATUS_PORT),
       WaitIbf("Failed waiting for IBF clear before sending write cmd."),
       Out(EC_CTRL_PORT, EC_CMD_WRITE),
       WaitIbf("Failed waiting for IBF clear after sending write cmd."),
       Out(EC_DATA_PORT, value),
       WaitIbf("Failed waiting for IBF clear after sending offset."),
       Out(EC_DATA_PORT, offset),
       WaitIbf("Failed waiting for IBF clear after sending data.") >>

\* _write_ec_byte returning right after the value byte is written.
write_ec_byte_nofinal(offset, value) ==
    << In(EC_STATUS_PORT),
       WaitIbf("Failed waiting for IBF clear before sending write cmd."),
       Out(EC_CTRL_PORT, EC_CMD_WRITE),
       WaitIbf("Failed waiting for IBF clear after sending write cmd."),
       Out(EC_DATA_PORT, offset),
       WaitIbf("Failed waiting for IBF clear after sending offset."),
       Out(EC_DATA_PORT, value) >>

write_ec_byte(offset, value) ==
    << In(EC_STATUS_PORT),
       WaitIbf("Failed waiting for IBF clear before sending write cmd."),
       Out(EC_CTRL_PORT, EC_CMD_WRITE),
       WaitIbf("Failed waiting for IBF clear after sending write cmd."),
       Out(EC_DATA_PORT, offset),
       WaitIbf("Failed waiting for IBF clear after sending offset."),
       Out(EC_DATA_PORT, value),
       WaitIbf("Failed waiting for IBF clear after sending data.") >>

\* The test a poll makes on one status byte.
kcs_wait_ibf_clear(status) == ~BitSet(status, EC_STATUS_IBF)

kcs_wait_obf_set(status) == BitSet(status, EC_STATUS_OBF)

\* The loop condition of both polls: time.time() - start_time < KCS_WAIT_TIMEOUT.
kcs_within_deadline(elapsed) == elapsed < KCS_WAIT_TIMEOUT

(***************************************************************************)
(* Call frames.  fn is the API function a thread executes, kind/off/val/pc *)
(* its transaction in flight and the position in it, el the time since the *)
(* current poll took start_time, data the byte read from the data port,    *)
(* lsb the local rpm_lsb, ret the call's outcome.                          *)
(***************************************************************************)
NoRet == [k |-> "pending", v |-> 0, msg |-> ""]

RetInt(v) == [k |-> "int", v |-> v, msg |-> ""]

RetNone == [k |-> "None", v |-> 0, msg |-> ""]

RetBool(b) == [k |-> IF b THEN "True" ELSE "False", v |-> 0, msg |-> ""]

RetRaise(exc, msg) == [k |-> exc, v |-> 0, msg |-> msg]

IdleFrame ==
    [fn |-> "idle", a |-> 0, b |-> 0, st |-> "idle", kind |-> "none", off |-> 0,
     val |-> 0, pc |-> 0, el |-> 0, data |-> 0, lsb |-> 0, ret |-> NoRet]

Prog(f) == IF f.kind = "read" THEN read_ec_byte(f.off) ELSE write_ec_byte(f.off, f.val)

InTx(f) == f.kind # "none"

Instr(f) == Prog(f)[f.pc]

\* The frame with a transaction begun (no port operation made yet).
Begin(f, kind, offset, value) ==
    [f EXCEPT !.st = "run", !.kind = kind, !.off = offset, !.val = value,
              !.pc = 1, !.el = 0, !.data = 0]

\* The frame with the call ended by outcome r.
Returned(f, r) ==
    [f EXCEPT !.st = "done", !.kind = "none", !.pc = 0, !.el = 0, !.ret = r]

(***************************************************************************)
(* High-level control functions of ec_control.py                           *)
(***************************************************************************)
\* The exceptions get_fan_rpm, get_temperature and set_fan_level catch.
Caught == {"TimeoutError", "RuntimeError", "OSError"}

\* get_temperature without the conversion to a signed byte.
get_temperature_decode_unsigned(temp) ==
    IF temp = 128 THEN RetNone ELSE RetInt(temp)

\* get_temperature's conversion of the byte it read.
get_temperature_decode(temp) ==
    IF temp = 128 THEN RetNone
    ELSE IF temp > 127 THEN RetInt(temp - 256)
    ELSE RetInt(temp)

\* get_fan_rpm's combination without the 0xFFFF case.
get_fan_rpm_combine_plain(rpm_lsb, rpm_msb) == RetInt(rpm_msb * 256 + rpm_lsb)

\* get_fan_rpm's combination of the two bytes it read.
get_fan_rpm_combine(rpm_lsb, rpm_msb) ==
    LET rpm == rpm_msb * 256 + rpm_lsb
    IN  IF rpm = 65535 THEN RetInt(0) ELSE RetInt(rpm)

\* get_temperature's check with the upper limit off by one.
get_temperature_valid_upto8(sensor_index) == 0 <= sensor_index /\ sensor_index <= 8

\* get_temperature's check of its argument.
get_temperature_valid(sensor_index) == 0 <= sensor_index /\ sensor_index <= 7

\* set_fan_level without a check of its argument.
set_fan_level_valid_any(level) == TRUE

\* set_fan_level's check with the upper limit off by one.
set_fan_level_valid_upto8(level) ==
    (0 <= level /\ level <= 8) \/ level = FAN_LEVEL_AUTO \/ level = FAN_LEVEL_FULL

\* set_fan_level's check of its argument.
set_fan_level_valid(level) ==
    (0 <= level /\ level <= 7) \/ level = FAN_LEVEL_AUTO \/ level = FAN_LEVEL_FULL

\* The frame after entering API function fn with arguments a, b.
Invoke(f, fn, a, b) ==
    LET g == [IdleFrame EXCEPT !.fn = fn, !.a = a, !.b = b, !.st = "run"]
    IN  CASE fn = "get_temperature" ->
               IF get_temperature_valid(a)
               THEN Begin(g, "read", TP_EC_TEMP_BASE + a, 0)
               ELSE Returned(g, RetRaise("ValueError", "Sensor index must be between 0 and 7."))
          [] fn = "set_fan_level" ->
               IF set_fan_level_valid(a)
               THEN Begin(g, "write", TP_EC_FAN_STATUS, a)
               ELSE Returned(g, RetRaise("ValueError", "Invalid fan level specified."))
          [] fn = "get_fan_rpm" -> Begin(g, "read", TP_EC_FAN_RPM_LSB, 0)
          [] fn = "read_register" -> Begin(g, "read", a, 0)
          [] OTHER -> Begin(g, "write", a, b)

\* The frame after the transaction in flight has run to its end.
OnSuccess(f) ==
    CASE f.fn = "get_temperature" -> Returned(f, get_temperature_decode(f.data))
      [] f.fn = "set_fan_level" -> Returned(f, RetBool(TRUE))
      [] f.fn = "get_fan_rpm" ->
           IF f.off = TP_EC_FAN_RPM_LSB
           THEN Begin([f EXCEPT !.lsb = f.data], "read", TP_EC_FAN_RPM_MSB, 0)
           ELSE Returned(f, get_fan_rpm_combine(f.lsb, f.data))
      [] f.fn = "read_register" -> Returned(f, RetInt(f.data))
      [] OTHER -> Returned(f, RetNone)

\* The frame after the transaction in flight has raised exc.
OnError(f, exc, msg) ==
    CASE f.fn = "get_temperature" ->
           IF exc \in Caught THEN Returned(f, RetNone) ELSE Returned(f, RetRaise(exc, msg))
      [] f.fn = "set_fan_level" ->
           IF exc \in Caught THEN Returned(f, RetBool(FALSE)) ELSE Returned(f, RetRaise(exc, msg))
      [] f.fn = "get_fan_rpm" ->
           IF exc \in Caught THEN Returned(f, RetInt(-1)) ELSE Returned(f, RetRaise(exc, msg))
      [] OTHER -> Returned(f, RetRaise(exc, msg))

(***************************************************************************)
(* History of a call, kept beside the frame: what the call has observed    *)
(* and done on the ports so far.                                           *)
(*   sawIbf   a status read since the transaction's last port write showed *)
(*            IBF clear                                                    *)
(*   sawObf   a status read since the offset was written showed OBF set    *)
(*   guarded  every port write so far followed such an IBF observation and *)
(*            every data-port read such an OBF observation                 *)
(*   touched  the call has made a port operation                           *)
(*   started  the transaction in flight has made a port operation          *)
(*   txs      the transactions the call has begun, in order                *)
(*   wr       the port writes of the call's latest transaction, in order   *)
(*   fail     where the call's transaction failed, if it did               *)
(*   ended    the number of the call's transactions that ran to their end  *)
(*   din      the bytes the latest transaction read from the data port     *)
(*   last     the latest transaction's most recent port operation          *)
(*   wrote    the thread's previous call, if it was a register write that  *)
(*            succeeded                                                    *)
(***************************************************************************)
NoFail == [kind |-> "none", pc |-> 0, exc |-> ""]

NoWrite == [ok |-> FALSE, off |-> 0, val |-> 0]

NoOp == [op |-> "none", port |-> 0]

TxRec(f) == [kind |-> f.kind, off |-> f.off, val |-> f.val]

IdleGhost ==
    [sawIbf |-> FALSE, sawObf |-> FALSE, guarded |-> TRUE, touched |-> FALSE,
     started |-> FALSE, txs |-> <<>>, wr |-> <<>>, fail |-> NoFail, ended |-> 0,
     din |-> <<>>, last |-> NoOp, wrote |-> NoWrite]

\* History at the entry of a call whose frame is nf; old is the frame before.
GhCall(old, nf) ==
    [IdleGhost EXCEPT !.txs = IF InTx(nf) THEN <<TxRec(nf)>> ELSE <<>>,
                      !.wrote = IF old.fn = "write_register" /\ old.ret = RetNone
                                THEN [ok |-> TRUE, off |-> old.a, val |-> old.b]
                                ELSE NoWrite]

\* History after a status byte v was read from the status port.
GhStatus(g, f, v) ==
    [g EXCEPT !.touched = TRUE, !.started = TRUE,
              !.last = [op |-> "in", port |-> EC_STATUS_PORT],
              !.sawIbf = @ \/ ~BitSet(v, EC_STATUS_IBF),
              !.sawObf = @ \/ (f.kind = "read" /\ Len(g.wr) >= 2 /\ BitSet(v, EC_STATUS_OBF))]

\* Thread t moves past the instruction it has just executed; f and g are
\* its frame and history after that instruction.
Advance(t, f, g) ==
    IF f.pc < Len(Prog(f))
    THEN /\ th' = [th EXCEPT ![t] = [f EXCEPT !.pc = @ + 1, !.el = 0]]
         /\ gh' = [gh EXCEPT ![t] = g]
    ELSE LET nf == OnSuccess(f)
         IN  /\ th' = [th EXCEPT ![t] = nf]
             /\ gh' = [gh EXCEPT ![t] =
                         IF InTx(nf)
                         THEN [g EXCEPT !.txs = Append(@, TxRec(nf)), !.wr = <<>>,
                                        !.sawIbf = FALSE, !.sawObf = FALSE,
                                        !.started = FALSE, !.ended = @ + 1,
                                        !.din = <<>>, !.last = NoOp]
                         ELSE [g EXCEPT !.started = FALSE, !.ended = @ + 1]]

\* Thread t's transaction raises exc at its current instruction.
Fail(t, exc, msg) ==
    /\ th' = [th EXCEPT ![t] = OnError(th[t], exc, msg)]
    /\ gh' = [gh EXCEPT ![t] = [@ EXCEPT !.started = FALSE,
                  !.fail = [kind |-> th[t].kind, pc |-> th[t].pc, exc |-> exc]]]
    /\ clean' = FALSE

(***************************************************************************)
(* Steps of a transaction: one port operation each                         *)
(***************************************************************************)
\* A port read outside a poll (lines 140, 160, 163, 170).
PortIn(t) ==
    /\ InTx(th[t])
    /\ Instr(th[t]).op = "in"
    /\ LET i == Instr(th[t])
           v == read_port(i.port)
           f == [th[t] EXCEPT !.data = IF i.port = EC_DATA_PORT THEN v ELSE @]
           g == IF i.port = EC_DATA_PORT
                THEN [gh[t] EXCEPT !.touched = TRUE, !.started = TRUE,
                                   !.guarded = @ /\ gh[t].sawObf,
                                   !.din = Append(@, v),
                                   !.last = [op |-> "in", port |-> EC_DATA_PORT]]
                ELSE GhStatus(gh[t], th[t], v)
       IN  /\ Advance(t, f, g)
           /\ EcAfterIn(i.port)
    /\ UNCHANGED <<drv, clean>>

\* A port write (lines 147, 153, 177, 185, 193).
PortOut(t) ==
    /\ InTx(th[t])
    /\ Instr(th[t]).op = "out"
    /\ LET i == Instr(th[t])
           g == [gh[t] EXCEPT !.touched = TRUE, !.started = TRUE,
                              !.guarded = @ /\ gh[t].sawIbf,
                              !.sawIbf = FALSE,
                              !.last = [op |-> "out", port |-> i.port],
                              !.wr = Append(@, <<i.port, write_port(i.val)>>)]
       IN  /\ Advance(t, th[t], g)
           /\ EcAfterOut(i.port, i.val)
    /\ UNCHANGED <<drv, clean>>

\* One iteration of a poll loop within its deadline: read the status port,
\* leave the loop when the flag is as awaited.
Poll(t) ==
    /\ InTx(th[t])
    /\ Instr(th[t]).op \in {"wait_ibf", "wait_obf"}
    /\ kcs_within_deadline(th[t].el)
    /\ LET i == Instr(th[t])
           status == read_port(EC_STATUS_PORT)
           g == GhStatus(gh[t], th[t], status)
           ok == IF i.op = "wait_ibf" THEN kcs_wait_ibf_clear(status)
                 ELSE kcs_wait_obf_set(status)
       IN  IF ok
           THEN Advance(t, th[t], g)
           ELSE /\ gh' = [gh EXCEPT ![t] = g]
                /\ UNCHANGED th
    /\ UNCHANGED <<ecvars, drv, clean>>

\* A poll that starts over at its deadline instead of returning False.
PollTimeout_resume(t) ==
    /\ InTx(th[t])
    /\ Instr(th[t]).op \in {"wait_ibf", "wait_obf"}
    /\ ~kcs_within_deadline(th[t].el)
    /\ th' = [th EXCEPT ![t] = [@ EXCEPT !.el = 0]]
    /\ UNCHANGED <<ecvars, gh, drv, clean>>

\* A poll loop ends at its deadline: the poll returns False and the
\* transaction raises TimeoutError with the message of its stage.
PollTimeout(t) ==
    /\ InTx(th[t])
    /\ Instr(th[t]).op \in {"wait_ibf", "wait_obf"}
    /\ ~kcs_within_deadline(th[t].el)
    /\ Fail(t, "TimeoutError", Instr(th[t]).tag)
    /\ UNCHANGED <<ecvars, drv>>

\* The port-access mechanism fails on the port operation about to be made.
PortFault(t) ==
    /\ InTx(th[t])
    /\ Instr(th[t]).op \in {"wait_ibf", "wait_obf"} => kcs_within_deadline(th[t].el)
    /\ Fail(t, "OSError", "port access failed")
    /\ UNCHANGED <<ecvars, drv>>

\* The wall clock advances by one tick; every poll in progress ages.
Polling(f) ==
    InTx(f) /\ Instr(f).op \in {"wait_ibf", "wait_obf"} /\ kcs_within_deadline(f.el)

Tick ==
    /\ \E t \in Threads : Polling(th[t])
    /\ th' = [t \in Threads |->
                IF Polling(th[t]) THEN [th[t] EXCEPT !.el = @ + 1] ELSE th[t]]
    /\ UNCHANGED <<ecvars, gh, drv, clean>>

(***************************************************************************)
(* Callers of the API: each call takes its function and arguments from     *)
(* small sets that hold the accepted and the rejected cases.               *)
(***************************************************************************)
OffsetSamples == {TP_EC_TEMP_BASE, 255}

ValueSamples == {0, 128, 246, 255}

IndexSamples == {-1, 0, 7, 8}

LevelSamples == {0, 7, 8, 16, FAN_LEVEL_FULL, FAN_LEVEL_AUTO}

ApiCalls ==
    {[fn |-> "read_register", a |-> o, b |-> 0] : o \in OffsetSamples}
    \cup {[fn |-> "write_register", a |-> o, b |-> v] : o \in OffsetSamples, v \in ValueSamples}
    \cup {[fn |-> "get_temperature", a |-> i, b |-> 0] : i \in IndexSamples}
    \cup {[fn |-> "set_fan_level", a |-> l, b |-> 0] : l \in LevelSamples}
    \cup {[fn |-> "get_fan_rpm", a |-> 0, b |-> 0]}

ApiCall(t) ==
    /\ th[t].st \in {"idle", "done"}
    /\ ncalls[t] < MaxCalls
    /\ \E c \in ApiCalls :
         LET nf == Invoke(th[t], c.fn, c.a, c.b)
         IN  /\ th' = [th EXCEPT ![t] = nf]
             /\ gh' = [gh EXCEPT ![t] = GhCall(th[t], nf)]
    /\ ncalls' = [ncalls EXCEPT ![t] = @ + 1]
    /\ UNCHANGED <<ecvars, clean, svc, conf>>

(***************************************************************************)
(* fan_control_logic.py: configuration, curve evaluation, service loop     *)
(***************************************************************************)
DEFAULT_SENSOR_INDEX == 0

DEFAULT_FAN_CURVE == << <<0, 0>>, <<50, 1>>, <<55, 2>>, <<65, 3>>, <<75, 5>>, <<85, 7>> >>

\* Curves load_config accepts: any list of integer pairs, sorted by threshold.
Curves == { DEFAULT_FAN_CURVE, << <<0, 0>>, <<55, 8>> >> }

\* What load_config can return: sensor_index and fan_curve.
Configs == {[sensor_index |-> DEFAULT_SENSOR_INDEX, fan_curve |-> c] : c \in Curves}

\* The for loop of get_target_fan_level from curve point i on.
RECURSIVE CurveScan(_, _, _, _)
CurveScan(temperature, curve, i, target_level) ==
    IF i > Len(curve) THEN target_level
    ELSE IF temperature >= curve[i][1]
         THEN CurveScan(temperature, curve, i + 1, curve[i][2])
         ELSE target_level

\* The for loop with the comparison `temperature > temp_threshold`.
RECURSIVE CurveScanStrict(_, _, _, _)
CurveScanStrict(temperature, curve, i, target_level) ==
    IF i > Len(curve) THEN target_level
    ELSE IF temperature > curve[i][1]
         THEN CurveScanStrict(temperature, curve, i + 1, curve[i][2])
         ELSE target_level

\* get_target_fan_level with that comparison.
get_target_fan_level_strict(temperature, curve) ==
    IF temperature.k = "None" THEN RetInt(FAN_LEVEL_AUTO)
    ELSE IF Len(curve) = 0 THEN RetRaise("IndexError", "list index out of range")
    ELSE RetInt(CurveScanStrict(temperature.v, curve, 1, curve[1][2]))

\* get_target_fan_level starting from AUTO instead of the first point's level.
get_target_fan_level_from_auto(temperature, curve) ==
    IF temperature.k = "None" THEN RetInt(FAN_LEVEL_AUTO)
    ELSE IF Len(curve) = 0 THEN RetRaise("IndexError", "list index out of range")
    ELSE RetInt(CurveScan(temperature.v, curve, 1, FAN_LEVEL_AUTO))

\* temperature is get_temperature's outcome: None or an integer.
get_target_fan_level(temperature, curve) ==
    IF temperature.k = "None" THEN RetInt(FAN_LEVEL_AUTO)
    ELSE IF Len(curve) = 0 THEN RetRaise("IndexError", "list index out of range")
    ELSE RetInt(CurveScan(temperature.v, curve, 1, curve[1][2]))

\* Python's order on tuples of two integers.
PointLeq(p, q) == p[1] < q[1] \/ (p[1] = q[1] /\ p[2] <= q[2])

\* sorted(...) of load_config, point by point.
RECURSIVE SortedInsert(_, _)
SortedInsert(p, s) ==
    IF Len(s) = 0 THEN <<p>>
    ELSE IF PointLeq(p, Head(s)) THEN <<p>> \o s
    ELSE <<Head(s)>> \o SortedInsert(p, Tail(s))

RECURSIVE sorted(_)
sorted(loaded_curve) ==
    IF Len(loaded_curve) = 0 THEN <<>>
    ELSE SortedInsert(Head(loaded_curve), sorted(Tail(loaded_curve)))

\* fan_curve lists of a configuration file: integer pairs in any order.
CurvePoints == {<<h, l>> : h \in {0, 50, 60}, l \in {0, 2, 7}}

LoadedCurves == UNION {[1..n -> CurvePoints] : n \in 0..MaxCurveLen}

\* Temperatures get_temperature can return.
TemperatureSamples == {RetNone} \cup {RetInt(v) : v \in {-10, 0, 49, 50, 55, 60, 90}}

\* Temperatures the sensor register takes while the service runs.
SensorSamples == {40, 70, 128}

\* sent is history: the value byte the loop's latest write transaction that
\* got as far as its value byte put on the data port (AUTO before any did).
InitSvc ==
    [pc |-> "start", is_running |-> TRUE, hWaitStop |-> FALSE,
     current_level |-> FAN_LEVEL_AUTO, target_level |-> 0,
     status |-> "RUNNING", stop |-> "idle", sent |-> FAN_LEVEL_AUTO]

\* The value byte of the main thread's call, if it has been put on the port.
SentByte(old) ==
    IF Len(gh["main"].wr) = 3 THEN gh["main"].wr[3][2] ELSE old

\* The main thread has taken a call's outcome: the call's frame is gone.
SvcReturn ==
    /\ th' = [th EXCEPT !["main"] = IdleFrame]
    /\ gh' = [gh EXCEPT !["main"] = IdleGhost]

\* The main thread calls API function fn(a) of ec_control.
SvcInvoke(fn, a) ==
    LET nf == Invoke(th["main"], fn, a, 0)
    IN  /\ th' = [th EXCEPT !["main"] = nf]
        /\ gh' = [gh EXCEPT !["main"] = GhCall(th["main"], nf)]

\* main(): load the configuration (lines 159-165).
SvcLoad ==
    /\ svc.pc = "start"
    /\ \E c \in Configs : conf' = c
    /\ svc' = [svc EXCEPT !.pc = "while"]
    /\ UNCHANGED <<ecvars, th, gh, ncalls, clean>>

\* main(): the loop condition `while self.is_running` (line 172).
SvcWhile ==
    /\ svc.pc = "while"
    /\ svc' = [svc EXCEPT !.pc = IF svc.is_running THEN "wait" ELSE "exit"]
    /\ UNCHANGED <<ecvars, th, gh, ncalls, clean, conf>>

\* main(): WaitForSingleObject returns WAIT_OBJECT_0; the auto-reset event
\* is reset and the loop is left (lines 174-179).
SvcWaitStop ==
    /\ svc.pc = "wait"
    /\ svc.hWaitStop
    /\ svc' = [svc EXCEPT !.pc = "exit", !.hWaitStop = FALSE]
    /\ UNCHANGED <<ecvars, th, gh, ncalls, clean, conf>>

\* main(): the wait times out and the cycle reads the temperature (line 183).
SvcWaitTimeout ==
    /\ svc.pc = "wait"
    /\ ~svc.hWaitStop
    /\ SvcInvoke("get_temperature", conf.sensor_index)
    /\ svc' = [svc EXCEPT !.pc = "temp"]
    /\ UNCHANGED <<ecvars, ncalls, clean, conf>>

\* The cycle calling set_fan_level also when the target is current_level.
SvcTemp_always ==
    /\ svc.pc = "temp"
    /\ th["main"].st = "done"
    /\ LET temp_c == th["main"].ret
           target == get_target_fan_level(temp_c, conf.fan_curve)
       IN  IF temp_c.k = "int" /\ target.k = "int"
           THEN /\ SvcInvoke("set_fan_level", target.v)
                /\ svc' = [svc EXCEPT !.pc = "set", !.target_level = target.v]
           ELSE /\ svc' = [svc EXCEPT !.pc = "while"]
                /\ SvcReturn
    /\ UNCHANGED <<ecvars, ncalls, clean, conf>>

\* main(): get_temperature has returned (lines 184-201).
SvcTemp ==
    /\ svc.pc = "temp"
    /\ th["main"].st = "done"
    /\ LET temp_c == th["main"].ret
           target == get_target_fan_level(temp_c, conf.fan_curve)
       IN  IF temp_c.k = "int" /\ target.k = "int" /\ svc.current_level # target.v
           THEN /\ SvcInvoke("set_fan_level", target.v)
                /\ svc' = [svc EXCEPT !.pc = "set", !.target_level = target.v]
           ELSE /\ svc' = [svc EXCEPT !.pc = "while"]
                /\ SvcReturn
    /\ UNCHANGED <<ecvars, ncalls, clean, conf>>

\* The cycle taking the target as current_level whatever set_fan_level returned.
SvcSet_optimistic ==
    /\ svc.pc = "set"
    /\ th["main"].st = "done"
    /\ svc' = [svc EXCEPT !.pc = "while",
                          !.sent = SentByte(@),
                          !.current_level = svc.target_level]
    /\ SvcReturn
    /\ UNCHANGED <<ecvars, ncalls, clean, conf>>

\* The cycle leaving the loop when set_fan_level has not returned True.
SvcSet_fatal ==
    /\ svc.pc = "set"
    /\ th["main"].st = "done"
    /\ svc' = [svc EXCEPT !.pc = IF th["main"].ret.k = "True" THEN "while" ELSE "exit",
                          !.current_level = IF th["main"].ret.k = "True"
                                            THEN svc.target_level ELSE @]
    /\ SvcReturn
    /\ UNCHANGED <<ecvars, ncalls, clean, conf>>

\* main(): set_fan_level has returned or raised (lines 193-205).
SvcSet ==
    /\ svc.pc = "set"
    /\ th["main"].st = "done"
    /\ svc' = [svc EXCEPT !.pc = "while",
                          !.sent = SentByte(@),
                          !.current_level = IF th["main"].ret.k = "True"
                                            THEN svc.target_level ELSE @]
    /\ SvcReturn
    /\ UNCHANGED <<ecvars, ncalls, clean, conf>>

\* The end of main() leaving the write out when current_level is AUTO.
SvcExit_conditional ==
    /\ svc.pc = "exit"
    /\ IF svc.current_level = FAN_LEVEL_AUTO
       THEN /\ svc' = [svc EXCEPT !.pc = "stopped", !.status = "STOPPED"]
            /\ UNCHANGED <<th, gh>>
       ELSE /\ SvcInvoke("set_fan_level", FAN_LEVEL_AUTO)
            /\ svc' = [svc EXCEPT !.pc = "restore"]
    /\ UNCHANGED <<ecvars, ncalls, clean, conf>>

\* main(): after the loop, set the fan to AUTO (lines 207-212).
SvcExit ==
    /\ svc.pc = "exit"
    /\ SvcInvoke("set_fan_level", FAN_LEVEL_AUTO)
    /\ svc' = [svc EXCEPT !.pc = "restore"]
    /\ UNCHANGED <<ecvars, ncalls, clean, conf>>

\* main() returns; SvcDoRun reports SERVICE_STOPPED (lines 212-217, 151-155).
SvcStopped ==
    /\ svc.pc = "restore"
    /\ th["main"].st = "done"
    /\ svc' = [svc EXCEPT !.pc = "stopped", !.status = "STOPPED"]
    /\ SvcReturn
    /\ UNCHANGED <<ecvars, ncalls, clean, conf>>

\* SvcStop on the control thread: report STOP_PENDING, set the event (lines 133-135).
SvcStopSignal ==
    /\ svc.stop = "idle"
    /\ svc.status = "RUNNING"
    /\ svc' = [svc EXCEPT !.stop = "signalled", !.status = "STOP_PENDING",
                          !.hWaitStop = TRUE]
    /\ UNCHANGED <<ecvars, th, gh, ncalls, clean, conf>>

\* SvcStop that also takes the main thread out of its cycle.
SvcStopFlag_forced ==
    /\ svc.stop = "signalled"
    /\ svc' = [svc EXCEPT !.stop = "done", !.is_running = FALSE,
                          !.pc = IF @ \in {"temp", "set"} THEN "exit" ELSE @]
    /\ UNCHANGED <<ecvars, th, gh, ncalls, clean, conf>>

\* SvcStop on the control thread: self.is_running = False (line 136).
SvcStopFlag ==
    /\ svc.stop = "signalled"
    /\ svc' = [svc EXCEPT !.stop = "done", !.is_running = FALSE]
    /\ UNCHANGED <<ecvars, th, gh, ncalls, clean, conf>>

\* The sensor's register takes a new reading.
EcSensor ==
    /\ svc.pc # "stopped"
    /\ \E v \in SensorSamples :
         /\ reg[TP_EC_TEMP_BASE + conf.sensor_index] # v
         /\ reg' = [reg EXCEPT ![TP_EC_TEMP_BASE + conf.sensor_index] = v]
    /\ UNCHANGED <<ibf, obf, ecIn, ecMode, ecOff, ecOut, hostvars>>

(***************************************************************************)
(* Initial states: the EC idle, its registers holding one of three images  *)
(***************************************************************************)
TempImage == <<70, 128, 246>>

RpmImage == << <<255, 255>>, <<16, 14>>, <<255, 10>> >>

RegImage(k) ==
    [o \in RegOffsets |->
        IF o = TP_EC_FAN_STATUS THEN FAN_LEVEL_AUTO
        ELSE IF o = TP_EC_FAN_RPM_LSB THEN RpmImage[k][1]
        ELSE IF o = TP_EC_FAN_RPM_MSB THEN RpmImage[k][2]
        ELSE IF o = 255 THEN 0
        ELSE (TempImage[k] + (o - TP_EC_TEMP_BASE)) % 256]

InitEc(images) ==
    /\ \E k \in images : reg = RegImage(k)
    /\ ibf = FALSE
    /\ obf = FALSE
    /\ ecIn = <<>>
    /\ ecMode = "idle"
    /\ ecOff = 0
    /\ ecOut = 0

InitHost ==
    /\ th = [t \in Threads |-> IdleFrame]
    /\ gh = [t \in Threads |-> IdleGhost]
    /\ ncalls = [t \in Threads |-> 0]
    /\ clean = TRUE
    /\ svc = InitSvc
    /\ conf = [sensor_index |-> DEFAULT_SENSOR_INDEX, fan_curve |-> DEFAULT_FAN_CURVE]

InitApi == InitEc(1..3) /\ InitHost

TxStep(t) ==
    \/ PortIn(t)
    \/ PortOut(t)
    \/ Poll(t)
    \/ PollTimeout(t)
    \/ PortFault(t)

\* One caller of the API against the mock EC.
NextApi ==
    \/ ApiCall("main")
    \/ TxStep("main")
    \/ EcConsume
    \/ Tick

SpecApi == InitApi /\ [][NextApi]_vars

\* Two callers of the API, on two threads, against the mock EC.
ConcCalls ==
    {[fn |-> "read_register", a |-> TP_EC_TEMP_BASE, b |-> 0],
     [fn |-> "write_register", a |-> TP_EC_FAN_STATUS, b |-> 70],
     [fn |-> "set_fan_level", a |-> 7, b |-> 0]}

ConcCall(t) ==
    /\ th[t].st \in {"idle", "done"}
    /\ ncalls[t] < MaxConcCalls
    /\ \E c \in ConcCalls :
         LET nf == Invoke(th[t], c.fn, c.a, c.b)
         IN  /\ th' = [th EXCEPT ![t] = nf]
             /\ gh' = [gh EXCEPT ![t] = GhCall(th[t], nf)]
    /\ ncalls' = [ncalls EXCEPT ![t] = @ + 1]
    /\ UNCHANGED <<ecvars, clean, svc, conf>>

NextConc ==
    \/ \E t \in Threads : ConcCall(t)
    \/ \E t \in Threads : TxStep(t)
    \/ EcConsume
    \/ Tick

SpecConc == InitApi /\ [][NextConc]_vars

(***************************************************************************)
(* One caller whose thread keeps running, a clock that keeps advancing,    *)
(* and an EC under no obligation to answer; every port access works.       *)
(***************************************************************************)
TxCalls ==
    {[fn |-> "read_register", a |-> TP_EC_TEMP_BASE, b |-> 0],
     [fn |-> "write_register", a |-> TP_EC_TEMP_BASE, b |-> 246],
     [fn |-> "get_fan_rpm", a |-> 0, b |-> 0],
     [fn |-> "set_fan_level", a |-> 7, b |-> 0]}

TxCall ==
    /\ th["main"].st \in {"idle", "done"}
    /\ ncalls["main"] < MaxTxCalls
    /\ \E c \in TxCalls :
         LET nf == Invoke(th["main"], c.fn, c.a, c.b)
         IN  /\ th' = [th EXCEPT !["main"] = nf]
             /\ gh' = [gh EXCEPT !["main"] = GhCall(th["main"], nf)]
    /\ ncalls' = [ncalls EXCEPT !["main"] = @ + 1]
    /\ UNCHANGED <<ecvars, clean, svc, conf>>

\* The statements of the transaction in flight.
TxRun ==
    \/ PortIn("main")
    \/ PortOut("main")
    \/ Poll("main")
    \/ PollTimeout("main")

NextTx ==
    \/ TxCall
    \/ TxRun
    \/ EcConsume
    \/ Tick

InitTx == InitEc({1}) /\ InitHost

SpecTx == InitTx /\ [][NextTx]_vars /\ WF_vars(TxRun) /\ WF_vars(Tick)

(***************************************************************************)
(* Curve evaluation on its own: load_config's curve, get_target_fan_level  *)
(***************************************************************************)
InitCurve ==
    /\ InitEc({1})
    /\ th = [t \in Threads |-> IdleFrame]
    /\ gh = [t \in Threads |-> IdleGhost]
    /\ ncalls = [t \in Threads |-> 0]
    /\ clean = TRUE
    /\ svc = InitSvc
    /\ \E loaded_curve \in LoadedCurves \cup {DEFAULT_FAN_CURVE} :
         conf = [sensor_index |-> DEFAULT_SENSOR_INDEX, fan_curve |-> sorted(loaded_curve)]

\* A call get_target_fan_level(temperature, fan_curve); the frame keeps the
\* temperature (b = 1 when it is present, a its value) and the outcome.
CurveEval ==
    /\ \E temperature \in TemperatureSamples :
         th' = [th EXCEPT !["main"] =
                  [IdleFrame EXCEPT !.fn = "get_target_fan_level",
                                    !.a = temperature.v,
                                    !.b = IF temperature.k = "None" THEN 0 ELSE 1,
                                    !.st = "done",
                                    !.ret = get_target_fan_level(temperature, conf.fan_curve)]]
    /\ UNCHANGED <<ecvars, gh, ncalls, clean, svc, conf>>

NextCurve == CurveEval

SpecCurve == InitCurve /\ [][NextCurve]_vars

(***************************************************************************)
(* The service: the main thread runs main(), the control thread SvcStop    *)
(***************************************************************************)
Init == InitEc({1}) /\ InitHost

Next ==
    \/ SvcLoad
    \/ SvcWhile
    \/ SvcWaitStop
    \/ SvcWaitTimeout
    \/ SvcTemp
    \/ SvcSet
    \/ SvcExit
    \/ SvcStopped
    \/ SvcStopSignal
    \/ SvcStopFlag
    \/ TxStep("main")
    \/ EcConsume
    \/ EcSensor
    \/ Tick

Spec == Init /\ [][Next]_vars

\* The steps of the main thread in main().
MainStep ==
    \/ SvcLoad
    \/ SvcWhile
    \/ SvcWaitStop
    \/ SvcWaitTimeout
    \/ SvcTemp
    \/ SvcSet
    \/ SvcExit
    \/ SvcStopped
    \/ TxStep("main")

\* The service at a steady sensor reading, with a main thread that keeps
\* running and a clock that keeps advancing; the EC and the stop request
\* are under no obligation.
NextLive ==
    \/ MainStep
    \/ SvcStopSignal
    \/ SvcStopFlag
    \/ EcConsume
    \/ Tick

SpecLive == Init /\ [][NextLive]_vars /\ WF_vars(MainStep) /\ WF_vars(Tick)

(***************************************************************************)
(* Claims                                                                  *)
(***************************************************************************)
Done(t) == th[t].st = "done"

\* The program of the transaction a call's history says has failed.
FailedProg(t) ==
    IF gh[t].fail.kind = "read" THEN read_ec_byte(th[t].off)
    ELSE write_ec_byte(th[t].off, th[t].val)

\* The port writes a program makes before its instruction pc, in order.
RECURSIVE WritesBefore(_, _)
WritesBefore(prog, pc) ==
    IF pc <= 1 THEN <<>>
    ELSE LET i == prog[pc - 1]
             rest == WritesBefore(prog, pc - 1)
         IN  IF i.op = "out" THEN Append(rest, <<i.port, i.val % 256>>) ELSE rest

\* The polls of the two transactions: <<kind, position>>.
PollStages ==
    {<<"read", p>> : p \in {q \in 1..Len(read_ec_byte(0)) :
                              read_ec_byte(0)[q].op \in {"wait_ibf", "wait_obf"}}}
    \cup {<<"write", p>> : p \in {q \in 1..Len(write_ec_byte(0, 0)) :
                              write_ec_byte(0, 0)[q].op \in {"wait_ibf", "wait_obf"}}}

StageTag(stage) ==
    IF stage[1] = "read" THEN read_ec_byte(0)[stage[2]].tag
    ELSE write_ec_byte(0, 0)[stage[2]].tag

\* C1: in every register transaction each port write follows a status read,
\* made since the transaction's previous port write, that showed IBF clear,
\* and the data-port read of a read transaction follows a status read, made
\* after the offset was written, that showed OBF set.
C1_HandshakeOrder == \A t \in Threads : gh[t].guarded

\* A read transaction has run to its end after a write transaction did.
C1_Witness ==
    /\ Done("main")
    /\ th["main"].fn = "read_register"
    /\ th["main"].ret.k = "int"
    /\ Len(gh["main"].wr) = 2
    /\ gh["main"].wrote.ok

\* C2: with a single caller and no failed transaction in the run (the EC
\* answers every handshake in time), write_register(o, v) with v in 0..255
\* that succeeds, followed by read_register(o) that succeeds, returns v.
C2_RoundTrip ==
    \A t \in Threads :
        ( /\ Done(t)
          /\ th[t].fn = "read_register"
          /\ th[t].ret.k = "int"
          /\ gh[t].wrote.ok
          /\ gh[t].wrote.off = th[t].a
          /\ gh[t].wrote.val \in 0..255
          /\ clean )
        => th[t].ret.v = gh[t].wrote.val

\* 0xF6 has been written to register 0x78, which held 70, and read back.
C2_Witness ==
    /\ Done("main")
    /\ th["main"].fn = "read_register"
    /\ th["main"].a = TP_EC_TEMP_BASE
    /\ th["main"].ret = RetInt(246)
    /\ gh["main"].wrote = [ok |-> TRUE, off |-> TP_EC_TEMP_BASE, val |-> 246]
    /\ clean
    /\ reg[TP_EC_TEMP_BASE + 1] = 71

\* C4: a transaction that runs into a poll's deadline raises TimeoutError at
\* that poll; the message of each of the seven polls is its own; the port
\* writes made are exactly those that precede the poll in the transaction;
\* and the call begins no transaction twice.
C4_TimeoutStage ==
    /\ Cardinality(PollStages) = 7
    /\ \A t \in Threads :
        (Done(t) /\ gh[t].fail.exc = "TimeoutError") =>
          LET stage == <<gh[t].fail.kind, gh[t].fail.pc>>
              txs == gh[t].txs
          IN  /\ stage \in PollStages
              /\ th[t].fn \in {"read_register", "write_register"} =>
                   /\ th[t].ret.k = "TimeoutError"
                   /\ th[t].ret.msg = StageTag(stage)
                   /\ \A other \in PollStages \ {stage} : StageTag(other) # th[t].ret.msg
              /\ gh[t].wr = WritesBefore(FailedProg(t), gh[t].fail.pc)
              /\ Len(txs) = (IF th[t].fn = "get_fan_rpm" /\ th[t].off = TP_EC_FAN_RPM_MSB
                             THEN 2 ELSE 1)
              /\ txs[Len(txs)] = [kind |-> gh[t].fail.kind, off |-> th[t].off, val |-> th[t].val]

\* A read has timed out waiting for OBF, after both of its port writes.
C4_Witness ==
    /\ Done("main")
    /\ th["main"].fn = "read_register"
    /\ th["main"].ret.k = "TimeoutError"
    /\ gh["main"].fail = [kind |-> "read", pc |-> 6, exc |-> "TimeoutError"]
    /\ Len(gh["main"].wr) = 2

\* C5: a temperature read whose transaction failed (timeout or port-access
\* error) ends with an outcome that is neither the sensor-unavailable result
\* (None) nor a temperature.
C5_FailureDistinguishable ==
    \A t \in Threads :
        ( /\ Done(t)
          /\ th[t].fn = "get_temperature"
          /\ gh[t].fail.exc \in {"TimeoutError", "OSError"} )
        => th[t].ret.k \notin {"None", "int"}

\* C8: set_fan_level accepts exactly the levels 0..7, 0x40 and 0x80: an
\* accepted call begins one write transaction of the level to register 0x2F,
\* any other call raises ValueError having made no port operation.
C8_FanLevelValidation ==
    \A t \in Threads :
        (th[t].fn = "set_fan_level" /\ th[t].st # "idle") =>
          IF th[t].a \in (0..7) \cup {64, 128}
          THEN /\ th[t].ret.k # "ValueError"
               /\ gh[t].txs = << [kind |-> "write", off |-> 47, val |-> th[t].a] >>
          ELSE /\ Done(t)
               /\ th[t].ret.k = "ValueError"
               /\ ~gh[t].touched
               /\ gh[t].txs = <<>>

\* Level 8 has been rejected and level 0x40 written.
C8_Witness ==
    /\ Done("main")
    /\ th["main"].fn = "set_fan_level"
    /\ th["main"].a = 8
    /\ th["main"].ret.k = "ValueError"
    /\ reg[TP_EC_FAN_STATUS] = FAN_LEVEL_FULL

\* C9: get_temperature with an index outside 0..7 raises ValueError having
\* made no port operation; with an index i in 0..7 it makes exactly one
\* transaction, a read of register 0x78 + i.
C9_SensorIndexValidation ==
    \A t \in Threads :
        (th[t].fn = "get_temperature" /\ th[t].st # "idle") =>
          IF th[t].a \in 0..7
          THEN /\ th[t].ret.k # "ValueError"
               /\ gh[t].txs = << [kind |-> "read", off |-> 120 + th[t].a, val |-> 0] >>
               /\ Done(t) /\ gh[t].fail = NoFail => Len(gh[t].wr) = 2 /\ gh[t].wr[2] = <<98, 120 + th[t].a>>
          ELSE /\ Done(t)
               /\ th[t].ret.k = "ValueError"
               /\ ~gh[t].touched
               /\ gh[t].txs = <<>>

\* Sensor 7 has been read by the caller's second call.
C9_Witness ==
    /\ Done("main")
    /\ th["main"].fn = "get_temperature"
    /\ th["main"].a = 7
    /\ th["main"].ret.k = "int"
    /\ gh["main"].touched
    /\ ncalls["main"] = 2

\* What the raw byte b of a temperature read is to yield.
C10_Expected(b) ==
    IF b = 128 THEN RetNone
    ELSE IF b <= 127 THEN RetInt(b)
    ELSE RetInt(b - 256)

\* The decoding of every byte 0..255, as the conversion computes it.
C10_AllBytes ==
    /\ \A b \in 0..255 :
         /\ get_temperature_decode(b) = C10_Expected(b)
         /\ get_temperature_decode(b).k = "None" \/ get_temperature_decode(b).v \in -127..127
    /\ get_temperature_decode(70) = RetInt(70)
    /\ get_temperature_decode(246) = RetInt(-10)

\* C10: a temperature read that succeeds with raw byte b yields unavailable
\* for b = 0x80, b for b <= 127 and b - 256 for b >= 129, so its result is
\* unavailable or an integer in -127..127; 0x46 yields 70 and 0xF6 yields -10.
C10_TemperatureDecode ==
    /\ C10_AllBytes
    /\ \A t \in Threads :
         (Done(t) /\ th[t].fn = "get_temperature" /\ th[t].a \in 0..7 /\ gh[t].fail = NoFail)
         => /\ th[t].ret = C10_Expected(th[t].data)
            /\ th[t].ret.k = "None" \/ (th[t].ret.k = "int" /\ th[t].ret.v \in -127..127)

\* Sensor 0 holding 0xF6 has been read as -10.
C10_Witness ==
    /\ Done("main")
    /\ th["main"].fn = "get_temperature"
    /\ th["main"].data = 246
    /\ th["main"].ret = RetInt(-10)
    /\ gh["main"].fail = NoFail

\* A transaction of thread t has made a port operation and has not ended.
InFlight(t) == InTx(th[t]) /\ gh[t].started

\* C3: the port operations of two transactions never interleave: no two
\* threads have a transaction in flight at once.
C3_MutualExclusion == ~(InFlight("main") /\ InFlight("other"))

\* C6: when the service reports itself stopped, the EC's fan-level register
\* holds AUTO.
C6_AutoRestoredAtStop ==
    svc.status = "STOPPED" => reg[TP_EC_FAN_STATUS] = FAN_LEVEL_AUTO

\* C7: while a transaction of the control cycle is under way, no step (the
\* stop request's included) moves the main thread out of the cycle: the
\* transaction goes on or ends with its outcome, and the loop is left, and
\* the AUTO write begun, only from the top of a cycle.
C7_StopNotMidTransaction ==
    [][ InTx(th["main"]) =>
          /\ svc'.pc = svc.pc
          /\ \/ InTx(th'["main"])
             \/ th'["main"].st = "done" /\ th'["main"].ret # NoRet ]_vars

\* The stop request has been made while a cycle's transaction is in flight.
C7_Witness ==
    /\ svc.pc \in {"temp", "set"}
    /\ InFlight("main")
    /\ svc.hWaitStop
    /\ ~svc.is_running

\* The RPM that bytes lsb and msb are to yield.
C11_Expected(lsb, msb) == IF lsb = 255 /\ msb = 255 THEN 0 ELSE msb * 256 + lsb

\* The combination of every pair of bytes, as get_fan_rpm computes it.
C11_AllPairs ==
    \A l \in 0..255, m \in 0..255 : get_fan_rpm_combine(l, m) = RetInt(C11_Expected(l, m))

\* C11: get_fan_rpm begins a read of register 0x84 and then, only once that
\* transaction has run to its end, a read of register 0x85, and no other
\* transaction; when both succeed it returns msb*256 + lsb of the two bytes
\* read, except 0 for lsb = msb = 0xFF; with no failed transaction in the run
\* these are the bytes the two registers hold.
C11_FanRpmOrder ==
    /\ C11_AllPairs
    /\ \A t \in Threads :
         (th[t].fn = "get_fan_rpm" /\ th[t].st # "idle") =>
           LET lsbTx == [kind |-> "read", off |-> 132, val |-> 0]
               msbTx == [kind |-> "read", off |-> 133, val |-> 0]
           IN  /\ gh[t].txs \in {<<lsbTx>>, <<lsbTx, msbTx>>}
               /\ Len(gh[t].txs) = 2 => gh[t].ended >= 1
               /\ (InTx(th[t]) /\ gh[t].ended = 0) => th[t].off = 132
               /\ (Done(t) /\ gh[t].fail = NoFail) =>
                    /\ gh[t].txs = <<lsbTx, msbTx>>
                    /\ gh[t].ended = 2
                    /\ th[t].ret = RetInt(C11_Expected(th[t].lsb, th[t].data))
                    /\ clean => th[t].ret = RetInt(C11_Expected(reg[132], reg[133]))

\* The fan's registers holding 0xFF, 0xFF have been read as 0 RPM.
C11_Witness ==
    /\ Done("main")
    /\ th["main"].fn = "get_fan_rpm"
    /\ gh["main"].fail = NoFail
    /\ th["main"].lsb = 255
    /\ th["main"].data = 255
    /\ th["main"].ret = RetInt(0)

\* A curve is in ascending order of threshold.
C12_Ascending(curve) ==
    \A i \in 1..Len(curve), j \in 1..Len(curve) : i < j => curve[i][1] <= curve[j][1]

\* The level of the curve's last point among those of the highest threshold
\* that is <= t.
C12_Expected(t, curve) ==
    LET below == {i \in 1..Len(curve) : curve[i][1] <= t}
        top == CHOOSE i \in below :
                 \A j \in below : curve[j][1] < curve[i][1] \/ (curve[j][1] = curve[i][1] /\ j <= i)
    IN  curve[top][2]

\* The documented cases of the default curve.
C12_Default ==
    /\ get_target_fan_level(RetInt(60), DEFAULT_FAN_CURVE) = RetInt(2)
    /\ get_target_fan_level(RetInt(49), DEFAULT_FAN_CURVE) = RetInt(0)
    /\ get_target_fan_level(RetInt(90), DEFAULT_FAN_CURVE) = RetInt(7)
    /\ get_target_fan_level(RetNone, DEFAULT_FAN_CURVE) = RetInt(128)

\* C12: for a curve in ascending order of threshold and a present
\* temperature t that is >= at least one threshold, get_target_fan_level
\* returns the level of the highest threshold <= t (default curve: 60 gives
\* 2, 49 gives 0, 90 gives 7); for an absent temperature it returns 0x80.
C12_CurveEvaluation ==
    /\ C12_Default
    /\ \A t \in Threads :
         (Done(t) /\ th[t].fn = "get_target_fan_level") =>
           IF th[t].b = 0
           THEN th[t].ret = RetInt(128)
           ELSE ( /\ C12_Ascending(conf.fan_curve)
                  /\ \E i \in 1..Len(conf.fan_curve) : conf.fan_curve[i][1] <= th[t].a )
                => th[t].ret = RetInt(C12_Expected(th[t].a, conf.fan_curve))

\* The file's curve [(60, 7), (50, 2)] has been put in order and 55 mapped
\* to level 2.
C12_Witness ==
    /\ Done("main")
    /\ th["main"].fn = "get_target_fan_level"
    /\ conf.fan_curve = << <<50, 2>>, <<60, 7>> >>
    /\ th["main"].a = 55
    /\ th["main"].b = 1
    /\ th["main"].ret = RetInt(2)

\* C13: a cycle whose temperature read succeeds with the sensor unavailable
\* (None), while current_level is not AUTO, goes on to write AUTO: it calls
\* set_fan_level(FAN_LEVEL_AUTO) before the cycle ends.
C13_AbsentFallsBackToAuto ==
    [][ ( /\ svc.pc = "temp"
          /\ svc'.pc # "temp"
          /\ th["main"].ret.k = "None"
          /\ gh["main"].fail = NoFail
          /\ svc.current_level # FAN_LEVEL_AUTO )
        => ( /\ svc'.pc = "set"
             /\ th'["main"].fn = "set_fan_level"
             /\ th'["main"].a = FAN_LEVEL_AUTO
             /\ svc'.target_level = FAN_LEVEL_AUTO ) ]_vars

\* The step that ends the temperature read of a cycle with a temperature.
C14_Decides ==
    svc.pc = "temp" /\ svc'.pc # "temp" /\ th["main"].ret.k = "int"

\* That step begins a write of level to the fan-level register.
C14_Issues(level) ==
    /\ svc'.pc = "set"
    /\ InTx(th'["main"])
    /\ gh'["main"].txs = << [kind |-> "write", off |-> 47, val |-> level] >>

\* The cycle begins no fan-level write other than the one that step begins.
C14_AtMostOne ==
    /\ (svc.pc = "temp" /\ svc'.pc = "temp") => th'["main"].kind # "write"
    /\ svc.pc = "set" =>
         /\ svc'.pc \in {"set", "while"}
         /\ Len(gh'["main"].txs) <= 1
         /\ svc'.pc = "while" => ~InTx(th'["main"])

\* C14 as stated: in every cycle with a present temperature a fan-level
\* write transaction is issued if and only if the target computed from the
\* curve differs from current_level, and at most one is issued per cycle.
C14_WriteIffChanged ==
    [][ LET target == get_target_fan_level(th["main"].ret, conf.fan_curve).v
        IN  /\ C14_Decides => (C14_Issues(target) <=> target # svc.current_level)
            /\ C14_AtMostOne ]_vars

\* C14, amended: in every cycle with a present temperature a fan-level write
\* transaction is issued if and only if the target computed from the curve
\* differs from current_level and is one of 0..7, 0x40, 0x80; a differing
\* target outside that set is rejected with no transaction; at most one
\* fan-level write is issued per cycle.
C14_WriteIffChangedAndValid ==
    [][ LET target == get_target_fan_level(th["main"].ret, conf.fan_curve).v
            valid == target \in (0..7) \cup {64, 128}
        IN  /\ C14_Decides =>
                 /\ C14_Issues(target) <=> (target # svc.current_level /\ valid)
                 /\ (target # svc.current_level /\ ~valid) =>
                      /\ svc'.pc = "set"
                      /\ th'["main"].ret.k = "ValueError"
                      /\ gh'["main"].txs = <<>>
                 /\ target = svc.current_level => svc'.pc = "while"
            /\ C14_AtMostOne ]_vars

\* After level 0 was written, a cycle's target 8 has been rejected unwritten.
C14_Witness ==
    /\ svc.pc = "set"
    /\ svc.current_level = 0
    /\ svc.target_level = 8
    /\ Done("main")
    /\ th["main"].ret.k = "ValueError"
    /\ reg[TP_EC_FAN_STATUS] = 0

\* C15: a cycle ends, whatever its outcome (temperature read failed, write
\* failed, exception raised), at the head of the loop; the loop is left only
\* once a stop has been requested; and from the head of the loop, while no
\* stop has been requested, the next cycle's temperature read begins.
C15_FailureDoesNotEndLoop ==
    /\ [][ /\ svc.pc \in {"temp", "set"} => svc'.pc \in {svc.pc, "set", "while"}
           /\ (svc.pc = "while" /\ svc.is_running) => svc'.pc \in {"while", "wait"}
           /\ (svc.pc = "wait" /\ ~svc.hWaitStop) => svc'.pc \in {"wait", "temp"}
           /\ (svc.pc # "exit" /\ svc'.pc = "exit") => svc.stop # "idle" ]_vars
    /\ (svc.pc \in {"temp", "set"}) ~> (svc.pc = "while")
    /\ (svc.pc \in {"while", "wait"} /\ svc.stop = "idle")
         ~> (svc.stop # "idle" \/ (svc.pc = "temp" /\ InTx(th["main"])))

\* A cycle's temperature read is under way after a cycle whose transaction
\* failed, no stop having been requested.
C15_Witness ==
    /\ ~clean
    /\ svc.pc = "temp"
    /\ InFlight("main")
    /\ svc.stop = "idle"

\* The latest transaction of thread t's call has run to its end and the call
\* has returned.
Completed(t, kind) ==
    /\ Done(t)
    /\ gh[t].fail = NoFail
    /\ gh[t].txs # <<>>
    /\ gh[t].txs[Len(gh[t].txs)].kind = kind

\* C16: a read transaction that succeeds has made exactly two port writes,
\* 0x80 to port 0x66 and then the offset to port 0x62; it has read the data
\* port once, after a status read showed OBF set, and that byte is its
\* result; and its last port operation is a read of the status port, made
\* after the data read, that has no part in the result.
C16_ReadSequence ==
    \A t \in Threads :
        Completed(t, "read") =>
          LET tx == gh[t].txs[Len(gh[t].txs)]
          IN  /\ gh[t].wr = << <<102, 128>>, <<98, tx.off>> >>
              /\ Len(gh[t].din) = 1
              /\ gh[t].sawObf
              /\ gh[t].guarded
              /\ gh[t].last = [op |-> "in", port |-> 102]
              /\ th[t].data = gh[t].din[1]
              /\ th[t].fn = "read_register" => th[t].ret = RetInt(gh[t].din[1])

\* Register 0xFF, holding 0, has been read by the caller's second call.
C16_Witness ==
    /\ Completed("main", "read")
    /\ th["main"].fn = "read_register"
    /\ th["main"].a = 255
    /\ th["main"].ret = RetInt(0)
    /\ gh["main"].wr[2] = <<98, 255>>
    /\ ecOut = 0
    /\ ncalls["main"] = 2

\* C17: a write transaction that succeeds has made exactly three port writes,
\* 0x81 to port 0x66, the offset to port 0x62 and the value byte to port
\* 0x62, in this order, and no data-port read; success is reported only after
\* a status read made after the value byte was written showed IBF clear.
C17_WriteSequence ==
    \A t \in Threads :
        /\ Completed(t, "write") =>
             LET tx == gh[t].txs[Len(gh[t].txs)]
             IN  /\ gh[t].wr = << <<102, 129>>, <<98, tx.off>>, <<98, tx.val>> >>
                 /\ gh[t].din = <<>>
                 /\ gh[t].sawIbf
                 /\ gh[t].guarded
                 /\ gh[t].last = [op |-> "in", port |-> 102]
        /\ ( Done(t) /\ ( \/ th[t].fn = "set_fan_level" /\ th[t].ret.k = "True"
                          \/ th[t].fn = "write_register" /\ th[t].ret = RetNone ) )
           => (Completed(t, "write") /\ Len(gh[t].wr) = 3 /\ gh[t].sawIbf)

\* set_fan_level(7) has returned True and the EC holds 7.
C17_Witness ==
    /\ Completed("main", "write")
    /\ th["main"].fn = "set_fan_level"
    /\ th["main"].a = 7
    /\ th["main"].ret.k = "True"
    /\ reg[TP_EC_FAN_STATUS] = 7

\* The main thread is in a poll whose deadline has elapsed.
C18_Expired ==
    /\ InTx(th["main"])
    /\ Instr(th["main"]).op \in {"wait_ibf", "wait_obf"}
    /\ th["main"].el >= KCS_WAIT_TIMEOUT

\* C18: every register transaction ends, with success or with TimeoutError,
\* whatever the EC does, provided the clock advances: a read has three polls
\* and a write four; a poll whose deadline has elapsed makes no further
\* status read, its transaction ends there with TimeoutError; and a
\* transaction that failed is not taken up again.
C18_TransactionTerminates ==
    /\ Cardinality({p \in PollStages : p[1] = "read"}) = 3
    /\ Cardinality({p \in PollStages : p[1] = "write"}) = 4
    /\ [][ /\ (C18_Expired /\ th'["main"] # th["main"]) =>
                /\ Done("main")'
                /\ gh'["main"].fail.exc = "TimeoutError"
                /\ gh'["main"].fail.pc = th["main"].pc
           /\ C18_Expired => gh'["main"].last = gh["main"].last
           /\ (gh["main"].fail # NoFail /\ ncalls' = ncalls) =>
                (th'["main"] = th["main"] /\ ~InTx(th'["main"])) ]_vars
    /\ InTx(th["main"]) ~>
         (Done("main") /\ gh["main"].fail.exc \in {"", "TimeoutError"})

\* The EC never took the offset of a read: the read has ended with
\* TimeoutError at its wait for OBF, IBF still set.
C18_Witness ==
    /\ Done("main")
    /\ th["main"].fn = "read_register"
    /\ th["main"].ret.k = "TimeoutError"
    /\ gh["main"].fail = [kind |-> "read", pc |-> 6, exc |-> "TimeoutError"]
    /\ ibf
    /\ ecMode = "rd_off"

\* C19: once the loop has been left, the main thread calls
\* set_fan_level(0x80) whatever current_level is; that call begins the one
\* write of 0x80 to register 0x2F; when it has returned, True or False, the
\* service stops, and it begins no EC transaction after it.
C19_SingleAutoRestore ==
    /\ [] ( svc.pc = "restore" =>
              /\ th["main"].fn = "set_fan_level"
              /\ th["main"].a = 128
              /\ gh["main"].txs = << [kind |-> "write", off |-> 47, val |-> 128] >> )
    /\ [] ( svc.pc = "stopped" => ~InTx(th["main"]) )
    /\ [][ /\ (svc.pc = "exit" /\ svc'.pc # "exit") =>
                /\ svc.stop # "idle"
                /\ svc'.pc = "restore"
                /\ InTx(th'["main"])
                /\ ~gh'["main"].touched
           /\ svc.pc = "restore" =>
                /\ svc'.pc \in {"restore", "stopped"}
                /\ svc'.pc = "stopped" => (Done("main") /\ th["main"].ret.k \in {"True", "False"})
           /\ svc.pc = "stopped" => (th'["main"] = th["main"] /\ svc'.pc = "stopped") ]_vars

\* With current_level already AUTO the write of AUTO has been attempted and
\* has failed.
C19_Witness ==
    /\ svc.pc = "restore"
    /\ svc.current_level = FAN_LEVEL_AUTO
    /\ Done("main")
    /\ th["main"].ret.k = "False"
    /\ gh["main"].touched

\* C20: between control cycles current_level is the value byte the service
\* last put on the data port in a write to register 0x2F, and AUTO if it has
\* put none.
C20_CurrentLevelIsLastSent ==
    svc.pc \in {"while", "wait"} => svc.current_level = svc.sent

\* C21: current_level changes only at the end of a cycle whose
\* set_fan_level call returned True, and then to the level that call wrote;
\* every other step (a cycle with an absent temperature, an unchanged
\* target, a failed write or a raised exception) leaves it as it is; and a
\* cycle whose target is the level of the latest set_fan_level call, while
\* current_level is not that level, calls set_fan_level with it again.
C21_CurrentLevelFrame ==
    [][ /\ svc'.current_level # svc.current_level =>
             /\ svc.pc = "set"
             /\ Done("main")
             /\ th["main"].fn = "set_fan_level"
             /\ th["main"].ret.k = "True"
             /\ gh["main"].fail = NoFail
             /\ gh["main"].wr = << <<102, 129>>, <<98, 47>>, <<98, svc'.current_level>> >>
             /\ svc'.current_level = svc.target_level
        /\ LET target == get_target_fan_level(th["main"].ret, conf.fan_curve).v
           IN  (C14_Decides /\ target = svc.target_level /\ target # svc.current_level) =>
                 /\ svc'.pc = "set"
                 /\ th'["main"].fn = "set_fan_level"
                 /\ th'["main"].a = target ]_vars

\* Level 3 is being written again: an earlier write of 3 failed after its
\* value byte, and current_level is still AUTO.
C21_Witness ==
    /\ svc.pc = "set"
    /\ InFlight("main")
    /\ th["main"].a = 3
    /\ svc.target_level = 3
    /\ svc.sent = 3
    /\ svc.current_level = FAN_LEVEL_AUTO

\* C22: a read transaction that succeeds yields the byte held by the
\* register whose offset it sent, also after an earlier read has timed out
\* waiting for OBF.
C22_ReadReturnsRequested ==
    \A t \in Threads :
        Completed(t, "read") =>
          th[t].data = RegRead(gh[t].txs[Len(gh[t].txs)].off)

\* The fan levels the EC is to be given.
C23_Levels == (0..7) \cup {64, 128}

\* C23: over any run of the service, with any of the loaded curves (one has
\* a level outside 0..7), every write transaction of the main thread is to
\* register 0x2F with a value byte among 0..7, 0x40, 0x80, so is every value
\* byte put on the data port and every byte the EC stores there; and a call
\* of set_fan_level with a target outside that set makes no port operation.
C23_FanLevelBytesValid ==
    /\ (InTx(th["main"]) /\ th["main"].kind = "write") =>
          (th["main"].off = 47 /\ th["main"].val \in C23_Levels)
    /\ (th["main"].fn = "set_fan_level" /\ Len(gh["main"].wr) = 3) =>
          (gh["main"].wr[2] = <<98, 47>> /\ gh["main"].wr[3][2] \in C23_Levels)
    /\ svc.sent \in C23_Levels
    /\ reg[47] \in C23_Levels
    /\ (th["main"].fn = "set_fan_level" /\ th["main"].a \notin C23_Levels) =>
          /\ Done("main")
          /\ th["main"].ret.k = "ValueError"
          /\ ~gh["main"].touched
          /\ gh["main"].txs = <<>>

\* With the curve whose second level is 8, at 70 degrees, set_fan_level(8)
\* has raised without a port operation; the last byte sent stays 0.
C23_Witness ==
    /\ svc.pc = "set"
    /\ conf.fan_curve[2] = <<55, 8>>
    /\ th["main"].a = 8
    /\ th["main"].ret.k = "ValueError"
    /\ ~gh["main"].touched
    /\ svc.sent = 0
    /\ reg[TP_EC_TEMP_BASE] = 70

\* C24: for a non-empty curve in ascending order of threshold and a present
\* temperature below every threshold, get_target_fan_level returns the level
\* of the curve's first point, not AUTO and not an error.
C24_BelowAllThresholds ==
    \A t \in Threads :
        ( /\ Done(t)
          /\ th[t].fn = "get_target_fan_level"
          /\ th[t].b = 1
          /\ Len(conf.fan_curve) > 0
          /\ C12_Ascending(conf.fan_curve)
          /\ \A i \in 1..Len(conf.fan_curve) : th[t].a < conf.fan_curve[i][1] )
        => th[t].ret = RetInt(conf.fan_curve[1][2])

\* At 49 degrees the curve [(50, 7), (60, 2)] has given level 7.
C24_Witness ==
    /\ Done("main")
    /\ th["main"].fn = "get_target_fan_level"
    /\ conf.fan_curve = << <<50, 7>>, <<60, 2>> >>
    /\ th["main"].a = 49
    /\ th["main"].b = 1
    /\ th["main"].ret = RetInt(7)

====
